---- MODULE Spec2Model ----
(***************************************************************************)
(* The authenticated model-serving core of the ML service:                 *)
(*   app/api/deps.py            get_jwks, get_current_user, RoleChecker    *)
(*   app/api/v1/endpoints/ml.py ml_predict, ml_batch_predict               *)
(*   app/services/model_service.py  ModelService.load_model, predict       *)
(*   app/services/decision_logger.py  DecisionLogger.log_decision          *)
(*   app/api/v1/endpoints/llm.py  llm_predict                              *)
(* A request is a coroutine of the event loop; it is cut into actions at   *)
(* the points where it can be suspended (the awaited key-set fetch, the    *)
(* hand-over of a dependency or of predict to the worker pool).  A field   *)
(* of a request (token header, signature and registered claims, payload,   *)
(* endpoint, body) is drawn at the statement that first reads it and is    *)
(* kept in the request's record from then on.                              *)
(* Spec follows whole requests through the gateway; SpecRole runs          *)
(* RoleChecker alone; SpecModel runs ModelService on two worker threads,   *)
(* cut where a call reads or writes the maps or the files the threads      *)
(* share; SpecAudit is one such thread under fair scheduling; SpecLogger   *)
(* runs the body of log_decision; SpecJwks runs authentication alone       *)
(* against an identity provider that rotates its keys; SpecLlm runs        *)
(* llm_predict; SpecCancel is one worker thread whose request may be       *)
(* cancelled; SpecFeatures builds the frame predict gives the model.       *)
(***************************************************************************)
EXTENDS Integers, Sequences, FiniteSets, TLC

\* ------------------------------------------------------------------ bounds
\* longest features_list a /batch-predict request carries
MaxBatch == 2

\* the requests that can be in flight together
Reqs == {"r1", "r2"}

\* ------------------------------------------------------- program constants
HTTP_401_UNAUTHORIZED == 401
HTTP_403_FORBIDDEN == 403
HTTP_500 == 500

SUPABASE_URL == "https://your-supabase.supabase.co"
\* f"{settings.SUPABASE_URL}/auth/v1", kept as its two parts
Issuer == <<SUPABASE_URL, "/auth/v1">>
Audience == "authenticated"
RequiredAlg == "RS256"

allow_all == <<"admin", "analyst", "viewer">>
allow_analysts == <<"admin", "analyst">>

\* ------------------------------------------------------------ Python values
\* a header field or claim that is not there (dict.get gives None)
Absent == "<absent>"
\* a JSON null
Null == "<null>"
\* Python truthiness of a str-or-None value
Truthy(v) == v \notin {Absent, Null, ""}
\* None is the empty sequence, a value v is <<v>>
None == << >>
Some(v) == <<v>>
IsNone(o) == o = << >>

Range(s) == {s[i] : i \in DOMAIN s}

\* ------------------------------------------------------------- input draws
Algs == {Absent, "none", "HS256", "RS256"}
Kids == {Absent, "k2", "k9"}
\* an unparsable token: jwt.get_unverified_header raises
Malformed == [wellformed |-> FALSE, alg |-> Absent, kid |-> Absent]
Headers == [wellformed : {TRUE}, alg : Algs, kid : Kids] \cup {Malformed}

\* the key set the identity provider serves: kid and key material
JwksDoc == [keys |-> << [kid |-> "k1", mat |-> "m1"], [kid |-> "k2", mat |-> "m2"] >>]

\* the key set served once the identity provider has rotated its keys: the
\* signing key under a new kid
RotatedDoc == [keys |-> << [kid |-> "k9", mat |-> "m1"] >>]
\* resp.json() of a fetch that ended with the given result
Fetched(result) == IF result = "rotated" THEN RotatedDoc ELSE JwksDoc
Successes == {"ok", "rotated"}

\* what signature and registered-claim verification reads of a token
Issuers == {Issuer, <<"https://evil.example", "/auth/v1">>}
Vers == [signedBy : {"m1", "m2"}, aud : {Audience, "anon"}, iss : Issuers, expired : BOOLEAN]

Roles == {"admin", "analyst", "viewer", "authenticated"}
AppMetadata(kind, role) == [kind |-> kind, role |-> role]
NoAppMetadata == AppMetadata("absent", Absent)
\* every shape of the three role carriers of a claim set
AppMetadatas ==
    {NoAppMetadata, AppMetadata("null", Absent), AppMetadata("str", Absent)}
        \cup {AppMetadata("dict", x) : x \in Roles \cup {Absent, Null, ""}}
ClaimSets ==
    [sub : BOOLEAN, user_role : Roles \cup {Absent, ""}, role : Roles \cup {Absent, ""},
     app_metadata : AppMetadatas]
\* the claim sets the gateway runs draw
GatewayClaimSets ==
    {c \in ClaimSets :
        \/ c.user_role = "admin" /\ c.role = Absent /\ c.app_metadata = NoAppMetadata
        \/ c.user_role = Absent /\ c.role = "authenticated" /\ c.app_metadata = NoAppMetadata
        \/ c.user_role = Absent /\ c.role = Absent
             /\ c.app_metadata = AppMetadata("null", Absent)}

\* --------------------------------------------------------------- variables
VARIABLES
    jwks_cache,        \* deps.jwks_cache: None or the fetched key-set document
    idp,               \* the identity provider's key-set endpoint, as a fetch finds it
    req,               \* the requests in flight, one record each
    _loaded_models,    \* ModelService._loaded_models: name -> the deserialized model
    _model_hashes,     \* ModelService._model_hashes: name -> digest
    decision_memory,   \* the rows of the decision_memory table
    disk,              \* models/<name>.pkl: None, or the bytes of the file
    worker,            \* the worker threads running ModelService calls, one record each
    engine,            \* DecisionLogger.engine and the database behind it
    logger             \* a log_decision coroutine being run: its position and locals

vars == <<jwks_cache, idp, req, _loaded_models, _model_hashes, decision_memory,
          disk, worker, engine, logger>>

\* ---------------------------------------------------------------- get_jwks
\* a fetch is made on every call
NeedsFetch_Always(cache) == TRUE

\* line 20: a fetch is made exactly when the cache is falsy
NeedsFetch(cache) == IsNone(cache)

\* a fetch that succeeds but is not stored in the cache
FetchOutcome_NotCached(cache, result) ==
    IF result \in Successes
    THEN [cache |-> cache, ret |-> Some(Fetched(result)), raised |-> FALSE]
    ELSE [cache |-> cache, ret |-> cache, raised |-> FALSE]

\* a failed fetch whose error is not caught
FetchOutcome_Raises(cache, result) ==
    IF result \in Successes
    THEN [cache |-> Some(Fetched(result)), ret |-> Some(Fetched(result)), raised |-> FALSE]
    ELSE [cache |-> cache, ret |-> cache, raised |-> TRUE]

\* a failed fetch that empties the cache
FetchOutcome_ClearsOnFailure(cache, result) ==
    IF result \in Successes
    THEN [cache |-> Some(Fetched(result)), ret |-> Some(Fetched(result)), raised |-> FALSE]
    ELSE [cache |-> None, ret |-> None, raised |-> FALSE]

\* lines 22-31 from the response on: the cache after the call and the value
\* returned; raised says whether an error leaves get_jwks
FetchOutcome(cache, result) ==
    IF result \in Successes
    THEN [cache |-> Some(Fetched(result)), ret |-> Some(Fetched(result)), raised |-> FALSE]
    ELSE [cache |-> cache, ret |-> cache, raised |-> FALSE]

\* -------------------------------------------------------- get_current_user
Unauthorized(reason) ==
    [status |-> HTTP_401_UNAUTHORIZED, detail |-> <<"Could not validate credentials", reason>>]

\* an HS256 fallback beside RS256
AlgAccepted_HS256Fallback(alg) == alg \in {RequiredAlg, "HS256"}

AlgAccepted(alg) == alg = RequiredAlg

\* the kid is looked for only when the key is looked up
KidAccepted_Deferred(kid) == TRUE

KidAccepted(kid) == Truthy(kid)

\* lines 41-49: "" when the header passes, else str(e)
HeaderError(h) ==
    IF ~h.wellformed THEN "Error decoding token headers."
    ELSE IF ~AlgAccepted(h.alg) THEN "Invalid algorithm. Strict RS256 enforcement applied."
    ELSE IF ~KidAccepted(h.kid) THEN "Missing 'kid' in token header."
    ELSE ""

RECURSIVE FirstKey(_, _, _)
FirstKey(keys, kid, i) ==
    IF i > Len(keys) THEN None
    ELSE IF keys[i].kid = kid THEN Some(keys[i])
    ELSE FirstKey(keys, kid, i + 1)

\* an unknown kid falls back to the first key of the set
FindKey_FirstKeyFallback(jwks, kid) ==
    IF IsNone(jwks) THEN None
    ELSE IF IsNone(FirstKey(jwks[1].keys, kid, 1)) THEN Some(jwks[1].keys[1])
    ELSE FirstKey(jwks[1].keys, kid, 1)

\* lines 52-57: the first key of the set whose kid is the token's
FindKey(jwks, kid) == IF IsNone(jwks) THEN None ELSE FirstKey(jwks[1].keys, kid, 1)

\* jwt.decode without the audience check
Decode_NoAudience(key, v) ==
    IF v.signedBy # key.mat THEN "Signature verification failed."
    ELSE IF v.expired THEN "Signature has expired."
    ELSE IF v.iss # Issuer THEN "Invalid issuer"
    ELSE ""

\* lines 62-73, jwt.decode(token, key, algorithms=["RS256"], audience, issuer,
\* verify_aud, verify_iss, verify_exp): "" when it returns the payload, else str(e)
\* (the texts stand for the library's JWTError messages, one per failed check)
Decode(key, v) ==
    IF v.signedBy # key.mat THEN "Signature verification failed."
    ELSE IF v.expired THEN "Signature has expired."
    ELSE IF v.aud # Audience THEN "Invalid audience"
    ELSE IF v.iss # Issuer THEN "Invalid issuer"
    ELSE ""

\* lines 76-82
SubError(payload) == IF ~payload.sub THEN "401: Invalid authentication credentials" ELSE ""

\* lines 51-90 once get_jwks has returned jwks (raised: get_jwks raised instead)
Verify(h, jwks, raised, ver, payload) ==
    LET key == FindKey(jwks, h.kid) IN
    IF raised
    THEN [reason |-> "JWKS fetch failed", decoded |-> FALSE]
    ELSE IF IsNone(key)
    THEN [reason |-> "Key ID (kid) not found in JWKS.", decoded |-> FALSE]
    ELSE IF Decode(key[1], ver[1]) # ""
    THEN [reason |-> Decode(key[1], ver[1]), decoded |-> TRUE]
    ELSE [reason |-> SubError(payload[1]), decoded |-> TRUE]

\* the draws Verify reads: the signature and registered claims once a key is
\* found, the payload once jwt.decode has returned it
VerDraws(h, jwks) == IF IsNone(FindKey(jwks, h.kid)) THEN {None} ELSE {Some(v) : v \in Vers}
PayloadDraws(h, jwks, ver) ==
    IF IsNone(ver) \/ Decode(FindKey(jwks, h.kid)[1], ver[1]) # ""
    THEN {None}
    ELSE {Some(c) : c \in GatewayClaimSets}

\* ------------------------------------------------------------- RoleChecker
\* line 99: None when the expression raises (app_metadata is no mapping)
ResolveRole(user) ==
    IF Truthy(user.user_role) THEN Some(user.user_role)
    ELSE IF Truthy(user.role) THEN Some(user.role)
    ELSE CASE user.app_metadata.kind = "absent" -> Some("viewer")
           [] user.app_metadata.kind = "dict" ->
                IF user.app_metadata.role = Absent THEN Some("viewer")
                ELSE Some(user.app_metadata.role)
           [] OTHER -> None

\* the "authenticated" sentinel kept as it is
EffectiveRole_NoSentinel(role) == role

\* lines 103-105
EffectiveRole(role) == IF role = "authenticated" THEN "viewer" ELSE role

\* lines 97-112: status 0 when the claim set is returned (user), else the error
RoleChecker(user, allowed_roles) ==
    LET resolved == ResolveRole(user) IN
    IF IsNone(resolved)
    THEN [status |-> HTTP_500, resolved |-> None, role |-> None,
          detail |-> <<"Internal Server Error">>, user |-> None]
    ELSE LET user_role == EffectiveRole(resolved[1]) IN
         IF user_role \notin Range(allowed_roles)
         THEN [status |-> HTTP_403_FORBIDDEN, resolved |-> resolved, role |-> Some(user_role),
               detail |-> <<"Operation not permitted. Role", user_role, "is not in">>
                              \o allowed_roles,
               user |-> None]
         ELSE [status |-> 0, resolved |-> resolved, role |-> Some(user_role),
               detail |-> << >>, user |-> Some(user)]

\* ------------------------------------------------------------ ModelService
ModelNames == {"churn_model", "revenue_model", "ghost_model"}
\* the artifacts under models/: <name>.pkl
LocalFiles == {"churn_model"}
\* the models the MLflow registry holds
RegistryModels == {"revenue_model"}
\* what a models/<name>.pkl file can hold; "bad" is no pickle joblib can load
Bytes == {"b1", "b2", "bad"}
\* hashlib.sha256(bytes).hexdigest(): its first 8 hex characters and the rest
sha256(bytes) ==
    <<CASE bytes = "b1" -> "9f86d081" [] bytes = "b2" -> "60303ae2" [] OTHER -> "fd61a03a",
      bytes>>
\* models/ as the gateway runs find it
InitialDisk == [n \in ModelNames |-> IF n \in LocalFiles THEN Some("b1") ELSE None]
FileDigest(name) == sha256(InitialDisk[name][1])
\* what joblib.load and mlflow.sklearn.load_model return
LocalModel(bytes) == [source |-> "local", content |-> bytes]
RegistryModel(name) == [source |-> "mlflow", content |-> name]
\* d[k] = v on a dict
Put(d, k, v) == [x \in DOMAIN d \cup {k} |-> IF x = k THEN v ELSE d[x]]

_feature_schemas ==
    [churn_model |-> <<"age", "tenure", "usage_frequency", "support_tickets",
                       "last_purchase_days", "subscription_tier", "contract_length",
                       "payment_delay">>,
     revenue_model |-> <<"marketing_spend", "seasonality_index", "new_users", "active_users",
                         "churn_rate", "avg_revenue_per_user", "economic_indicator">>]

\* the key sets of the feature maps a request body carries
FeatureMaps ==
    {Range(_feature_schemas.churn_model),
     Range(_feature_schemas.churn_model) \ {"tenure", "payment_delay"},
     Range(_feature_schemas.revenue_model)}

\* what importing and calling mlflow can do
RegistryStates == {"ok", "importerror", "error"}

\* lines 41-83: the maps after the call, or the ValueError raised
load_model(model_name, loaded, hashes, registry) ==
    IF model_name \in DOMAIN loaded
    THEN [ok |-> TRUE, loaded |-> loaded, hashes |-> hashes, error |-> << >>]
    ELSE IF model_name \in LocalFiles
    THEN [ok |-> TRUE,
          loaded |-> Put(loaded, model_name, LocalModel(InitialDisk[model_name][1])),
          hashes |-> Put(hashes, model_name, FileDigest(model_name)),
          error |-> << >>]
    ELSE IF registry = "importerror"
    THEN [ok |-> FALSE, loaded |-> loaded, hashes |-> hashes,
          error |-> <<"Model", model_name, "not found locally. Graceful fallback failed.">>]
    ELSE IF registry = "ok" /\ model_name \in RegistryModels
    THEN [ok |-> TRUE, loaded |-> Put(loaded, model_name, RegistryModel(model_name)),
          hashes |-> hashes, error |-> << >>]
    ELSE [ok |-> FALSE, loaded |-> loaded, hashes |-> hashes,
          error |-> <<"Model", model_name, "not found. Graceful fallback failed:">>]

\* only the first missing feature is reported
MissingFeatures_FirstOnly(model_name, features) ==
    IF model_name \in DOMAIN _feature_schemas
    THEN SubSeq(SelectSeq(_feature_schemas[model_name], LAMBDA f : f \notin features), 1, 1)
    ELSE << >>

\* lines 92-94: the required features the input lacks, in schema order
MissingFeatures(model_name, features) ==
    IF model_name \in DOMAIN _feature_schemas
    THEN SelectSeq(_feature_schemas[model_name], LAMBDA f : f \notin features)
    ELSE << >>

\* line 111
Version(model_name, hashes) ==
    IF model_name \in DOMAIN hashes THEN hashes[model_name][1] ELSE "1.0.0"

\* the coroutine is run to its end and appends the row
log_decision_call_Awaited(rows, row) == Append(rows, row)

\* lines 131-145: log_decision is a coroutine function and predict calls it
\* without awaiting it, so the call writes no row
log_decision_call(rows, row) == rows

\* ------------------------------------------------- ModelService, by thread
\* the worker threads run_in_threadpool hands ModelService calls to
Workers == {"w1", "w2"}
Ops == {"predict", "get_model_info", "preload_models"}
\* the names the calls ask for
SvcNames == {"churn_model", "revenue_model"}
\* the states of models/: only churn_model.pkl is ever written
Disks == {[n \in ModelNames |-> IF n = "churn_model" THEN c ELSE None] :
             c \in {None} \cup {Some(b) : b \in Bytes}}

Raised(kind, msg) == Some([kind |-> kind, msg |-> msg])

\* a thread's call: its arguments, its position, its locals, and what it did
\*   io: the storage accesses load_model made    wrote: the maps it assigned to
IdleWorker ==
    [pc |-> "idle", op |-> "", model_name |-> "", features |-> {}, hit |-> FALSE,
     io |-> {}, model_hash |-> None, model |-> None, wrote |-> {}, version |-> "",
     inferred |-> FALSE, logcall |-> "", result |-> None, error |-> None,
     cancelled |-> FALSE, values |-> << >>, order |-> << >>, trained |-> None, df |-> None]

\* list_models, lines 182-187, as preload_models reads it: the local names
LocalNames(d) == {n \in DOMAIN d : ~IsNone(d[n])}
\* the names a call is made with: preload_models takes them from models/
CallNames(op, d) ==
    IF op = "predict" THEN SvcNames
    ELSE IF op = "get_model_info" THEN {"churn_model"}
    ELSE IF LocalNames(d) = {} THEN {""} ELSE LocalNames(d)
\* the feature maps predict is called with: one with every required feature
\* of the model, one without some
CallFeatures(op, name) ==
    IF op # "predict" THEN {{}}
    ELSE IF name = "churn_model"
    THEN {f \in FeatureMaps : f \subseteq Range(_feature_schemas.churn_model)}
    ELSE {f \in FeatureMaps : f # Range(_feature_schemas.churn_model)}

\* lines 120-129: the churn artifacts are classifiers, the revenue ones regressors;
\* the outputs of a fitted model are a function of the model and its input
Classifier(model_name) == model_name = "churn_model"
Prediction(model_name, model, version) ==
    IF Classifier(model_name)
    THEN [prediction |-> <<"class", model.content>>, probability |-> <<"proba", model.content>>,
          confidence |-> <<"max", model.content>>, model_name |-> model_name,
          model_version |-> version]
    ELSE [prediction |-> <<"value", model.content>>, probability |-> <<"1.0">>,
          confidence |-> <<"1.0">>, model_name |-> model_name, model_version |-> version]

\* lines 132-141: the import and the call give a coroutine object, or raise
LogCalls == {"coroutine", "raises"}

\* a failure of the logger call leaves predict as an error
predict_return_Propagates(result, logcall) ==
    IF logcall = "coroutine" THEN [result |-> Some(result), error |-> None]
    ELSE [result |-> None, error |-> Raised("Exception", <<"Failed to log decision">>)]

\* lines 131-155: what predict hands back once inference gave result
predict_return(result, logcall) == [result |-> Some(result), error |-> None]

\* lines 161-175
ModelInfo(model_name) == [name |-> model_name, loaded |-> TRUE]

\* a cached model is used only while the file still holds its bytes
CacheHit_Staleness(model_name, loaded, d) ==
    model_name \in DOMAIN loaded /\ d[model_name] = Some(loaded[model_name].content)

\* line 43
CacheHit(model_name, loaded, d) == model_name \in DOMAIN loaded

\* the name is put in the cache before joblib.load has returned
StoreModel_BeforeLoad(loaded, model_name, file) ==
    Put(loaded, model_name, LocalModel(IF IsNone(file) THEN "bad" ELSE file[1]))

\* lines 55-56: the cache after joblib.load(local_path) and the assignment;
\* joblib.load raises on a missing file and on bytes that are no pickle
StoreModel(loaded, model_name, file) ==
    IF IsNone(file) \/ file = Some("bad") THEN loaded
    ELSE Put(loaded, model_name, LocalModel(file[1]))

\* load_model has returned the model: get_model_info and preload_models are
\* over, predict goes on to its schema check
Loaded(c) ==
    IF c.op = "predict" THEN [c EXCEPT !.pc = "loaded"]
    ELSE [c EXCEPT !.pc = "ret",
                   !.result = IF c.op = "get_model_info" THEN Some(ModelInfo(c.model_name))
                              ELSE None]

\* load_model has raised
Failed(c, error) == [c EXCEPT !.pc = "ret", !.error = error]

\* ----------------------------------------------------------- DecisionLogger
\* most rows the decision_memory table is followed for
MaxRows == 2

\* no engine, or an engine whose database can or cannot be reached
EngineStates == {"none", "up", "down"}
\* lines 18-33: whether __init__ leaves an engine, given DATABASE_URL and
\* whether create_async_engine returned
DecisionLogger_init(db_url_set, created) == db_url_set /\ created

\* the arguments of a log_decision call; features can hold a value json.dumps
\* cannot serialize
LogArgs ==
    [model_name : SvcNames, model_version : {"9f86d081", "1.0.0"},
     features : {"{\"age\": 30}", "<not serializable>"}]

\* json.dumps(features): None when it raises TypeError
json_dumps(features) == IF features = "<not serializable>" THEN None ELSE Some(features)

\* lines 53-62
decision_record(args) ==
    [model_name |-> args.model_name, model_version |-> args.model_version,
     input_features |-> json_dumps(args.features)[1]]

\* a log_decision call: its arguments, its position, the record it built, the
\* open transaction, the error its except clause caught, whether it reached
\* the database, whether an error left it, and the table as the call found it
IdleLogger == [pc |-> "idle", args |-> None, record |-> None, txn |-> None,
               caught |-> "", attempted |-> FALSE, raised |-> FALSE, before |-> << >>]

\* an error inside the try leaves log_decision uncaught
Caught_Propagates(c, what) ==
    [c EXCEPT !.pc = "ret", !.txn = None, !.caught = "", !.raised = TRUE]

\* lines 76-77: the except clause; leaving the async with rolls the open
\* transaction back
Caught(c, what) == [c EXCEPT !.pc = "ret", !.txn = None, !.caught = what]

\* ---------------------------------------------------------------- requests
IdpStates == {"down", "up"}
Endpoints == {"predict", "batch-predict"}
\* ml.py lines 17-18, 21, 37
AllowedRoles(endpoint) == IF endpoint = "predict" THEN allow_all ELSE allow_analysts
\* the predictions a request asks for
BatchSizes(endpoint) == IF endpoint = "predict" THEN {1} ELSE 0 .. MaxBatch

Idle ==
    [pc |-> "idle", header |-> None, called |-> FALSE, fetch |-> "",
     jwks |-> None, raised |-> FALSE, ver |-> None, payload |-> None, decoded |-> FALSE,
     user |-> None, endpoint |-> "", resolved |-> None, role |-> None, granted |-> None,
     steps |-> {}, model_name |-> "", todo |-> 0, upstream |-> "",
     status |-> 0, by |-> "", detail |-> << >>]

Done(q, by, status, detail) == [q EXCEPT !.pc = "done", !.by = by, !.status = status,
                                        !.detail = detail]

\* a route whose body runs whatever its dependency did
AfterDependency_Always(status) == "authorized"

\* a route runs its body once its dependency has returned, and answers with
\* the dependency's error otherwise
AfterDependency(status) == IF status = 0 THEN "authorized" ELSE "done"

\* the routes of the ML router
MLEndpoints == Endpoints \cup {"models", "info", "explain"}

\* the predict route calls model_service.predict in its own coroutine
Offloaded_PredictInline(endpoint) == endpoint # "predict"

\* ml.py lines 27, 45, 63, 77 and 122: the route hands its ModelService calls
\* to the worker pool with run_in_threadpool and awaits the result
Offloaded(endpoint) == endpoint \in MLEndpoints

\* the one event loop runs a handler until it awaits: a handler that calls
\* ModelService in its own coroutine keeps the loop until the call returns
HoldsLoop(q) == q.pc = "loaded" /\ ~Offloaded(q.endpoint)
\* the event loop can run a step of request r
LoopFree(r) == \A o \in Reqs \ {r} : ~HoldsLoop(req[o])

Init ==
    /\ jwks_cache = None
    /\ idp \in IdpStates
    /\ req = [r \in Reqs |-> Idle]
    /\ _loaded_models = << >>
    /\ _model_hashes = << >>
    /\ decision_memory = << >>
    /\ disk = InitialDisk
    /\ worker = [w \in Workers |-> IdleWorker]
    /\ engine = "none"
    /\ logger = IdleLogger

\* HTTPBearer: a request without credentials never reaches get_current_user
NoCredentials(r) ==
    /\ req[r].pc = "idle"
    /\ LoopFree(r)
    /\ req' = [req EXCEPT ![r] = Done(@, "HTTPBearer", HTTP_403_FORBIDDEN, <<"Not authenticated">>)]
    /\ UNCHANGED <<jwks_cache, idp, _loaded_models, _model_hashes, decision_memory, disk, worker, engine, logger>>

\* get_current_user, lines 38-49 and 85-90: the header is refused
RejectHeader(r) ==
    /\ req[r].pc = "idle"
    /\ LoopFree(r)
    /\ \E h \in Headers :
        /\ HeaderError(h) # ""
        /\ req' = [req EXCEPT ![r] =
                     Done([@ EXCEPT !.header = Some(h)], "get_current_user",
                          Unauthorized(HeaderError(h)).status,
                          Unauthorized(HeaderError(h)).detail)]
    /\ UNCHANGED <<jwks_cache, idp, _loaded_models, _model_hashes, decision_memory, disk, worker, engine, logger>>

\* get_current_user from the return of get_jwks to its own return or raise,
\* for one draw of what it reads
AuthOutcome(q, jwks, raised, ver, payload) ==
    LET v == Verify(q.header[1], jwks, raised, ver, payload)
        seen == [q EXCEPT !.called = TRUE, !.jwks = jwks, !.raised = raised, !.ver = ver,
                          !.payload = payload, !.decoded = v.decoded]
    IN IF v.reason = ""
       THEN [seen EXCEPT !.pc = "authed", !.user = payload,
                         !.steps = @ \cup {"authenticate"}]
       ELSE Done(seen, "get_current_user", Unauthorized(v.reason).status,
                 Unauthorized(v.reason).detail)

AuthFinish(q, jwks, raised) ==
    UNION {{AuthOutcome(q, jwks, raised, ver, payload) :
               payload \in PayloadDraws(q.header[1], jwks, ver)} :
           ver \in VerDraws(q.header[1], jwks)}

\* get_current_user with the key set cached: get_jwks returns without a fetch
AuthCached(r) ==
    /\ req[r].pc = "idle"
    /\ LoopFree(r)
    /\ ~NeedsFetch(jwks_cache)
    /\ \E h \in Headers :
        /\ HeaderError(h) = ""
        /\ \E q \in AuthFinish([req[r] EXCEPT !.header = Some(h)], jwks_cache, FALSE) :
             req' = [req EXCEPT ![r] = q]
    /\ UNCHANGED <<jwks_cache, idp, _loaded_models, _model_hashes, decision_memory, disk, worker, engine, logger>>

\* get_current_user up to the await of the key-set fetch (deps.py line 24)
StartFetch(r) ==
    /\ req[r].pc = "idle"
    /\ LoopFree(r)
    /\ NeedsFetch(jwks_cache)
    /\ \E h \in Headers :
        /\ HeaderError(h) = ""
        /\ req' = [req EXCEPT ![r] = [@ EXCEPT !.pc = "fetching", !.header = Some(h),
                                               !.called = TRUE, !.fetch = "pending"]]
    /\ UNCHANGED <<jwks_cache, idp, _loaded_models, _model_hashes, decision_memory, disk, worker, engine, logger>>

\* what the fetch finds: a key set, or a non-success status, a connection
\* error or a timeout
FetchResults(endpoint) ==
    IF endpoint = "up" THEN {"ok"}
    ELSE IF endpoint = "rotated" THEN {"rotated"}
    ELSE {"status", "connect", "timeout"}

\* the fetch ends; get_jwks returns and get_current_user runs to its end
FetchReturns(r) ==
    /\ req[r].pc = "fetching"
    /\ LoopFree(r)
    /\ \E result \in FetchResults(idp) :
        LET out == FetchOutcome(jwks_cache, result) IN
        /\ jwks_cache' = out.cache
        /\ \E q \in AuthFinish([req[r] EXCEPT !.fetch = IF result \in Successes THEN "ok" ELSE "failed"],
                               out.ret, out.raised) :
             req' = [req EXCEPT ![r] = q]
    /\ UNCHANGED <<idp, _loaded_models, _model_hashes, decision_memory, disk, worker, engine, logger>>

\* RoleChecker.__call__ as the dependency of the route the request asked for
RoleCheck(r) ==
    /\ req[r].pc = "authed"
    /\ LoopFree(r)
    /\ \E endpoint \in Endpoints :
        \E n \in BatchSizes(endpoint) :
          LET out == RoleChecker(req[r].user[1], AllowedRoles(endpoint)) IN
          req' = [req EXCEPT ![r] =
                    [@ EXCEPT !.pc = AfterDependency(out.status),
                              !.endpoint = endpoint,
                              !.resolved = out.resolved,
                              !.role = out.role,
                              !.granted = out.user,
                              !.todo = n,
                              !.steps = IF out.status = 0 THEN @ \cup {"authorize"} ELSE @,
                              !.by = IF out.status = 0 THEN @ ELSE "RoleChecker",
                              !.status = out.status,
                              !.detail = out.detail]]
    /\ UNCHANGED <<jwks_cache, idp, _loaded_models, _model_hashes, decision_memory, disk, worker, engine, logger>>

\* ml_batch_predict with an empty features_list
BatchEmpty(r) ==
    /\ req[r].pc = "authorized"
    /\ LoopFree(r)
    /\ req[r].todo = 0
    /\ req' = [req EXCEPT ![r] = Done(@, req[r].endpoint, 200, <<"predictions">>)]
    /\ UNCHANGED <<jwks_cache, idp, _loaded_models, _model_hashes, decision_memory, disk, worker, engine, logger>>

\* model_service.predict on a worker, line 89: load_model
PredictLoad(r) ==
    /\ req[r].pc = "authorized"
    /\ LoopFree(r)
    /\ req[r].todo > 0
    /\ \E name \in (IF req[r].model_name = "" THEN ModelNames ELSE {req[r].model_name}) :
        \E registry \in RegistryStates :
          LET out == load_model(name, _loaded_models, _model_hashes, registry) IN
          /\ _loaded_models' = out.loaded
          /\ _model_hashes' = out.hashes
          /\ req' = [req EXCEPT ![r] =
                       IF out.ok
                       THEN [@ EXCEPT !.pc = "loaded", !.model_name = name,
                                      !.steps = @ \cup {"load"}]
                       ELSE Done([@ EXCEPT !.model_name = name, !.steps = @ \cup {"load"}],
                                 req[r].endpoint, HTTP_500, out.error)]
    /\ UNCHANGED <<jwks_cache, idp, decision_memory, disk, worker, engine, logger>>

\* model_service.predict, lines 91-155: schema check, inference, decision log
PredictRun(r) ==
    /\ req[r].pc = "loaded"
    /\ \E features \in FeatureMaps :
        LET missing == MissingFeatures(req[r].model_name, features)
            version == Version(req[r].model_name, _model_hashes)
        IN IF missing # << >>
           THEN /\ req' = [req EXCEPT ![r] =
                             Done(@, req[r].endpoint, HTTP_500,
                                  <<"Schema Validation Failed. Missing required features:">>
                                      \o missing)]
                /\ UNCHANGED decision_memory
           ELSE /\ decision_memory' = log_decision_call(decision_memory,
                                                        <<req[r].model_name, version>>)
                /\ req' = [req EXCEPT ![r] =
                             IF req[r].todo = 1
                             THEN Done([@ EXCEPT !.todo = 0,
                                                 !.steps = @ \cup {"predict", "log"}],
                                       req[r].endpoint, 200, <<req[r].model_name, version>>)
                             ELSE [@ EXCEPT !.pc = "authorized", !.todo = @ - 1,
                                            !.steps = @ \cup {"predict", "log"}]]
    /\ UNCHANGED <<jwks_cache, idp, _loaded_models, _model_hashes, disk, worker, engine, logger>>

\* the response is sent and the request is over
Respond(r) ==
    /\ req[r].pc = "done"
    /\ LoopFree(r)
    /\ req' = [req EXCEPT ![r] = Idle]
    /\ UNCHANGED <<jwks_cache, idp, _loaded_models, _model_hashes, decision_memory, disk, worker, engine, logger>>

\* the identity provider's endpoint goes down or comes up
IdpChange ==
    /\ \E s \in IdpStates \ {idp} : idp' = s
    /\ UNCHANGED <<jwks_cache, req, _loaded_models, _model_hashes, decision_memory, disk, worker, engine, logger>>

Next ==
    \/ \E r \in Reqs : NoCredentials(r)
    \/ \E r \in Reqs : RejectHeader(r)
    \/ \E r \in Reqs : AuthCached(r)
    \/ \E r \in Reqs : StartFetch(r)
    \/ \E r \in Reqs : FetchReturns(r)
    \/ \E r \in Reqs : RoleCheck(r)
    \/ \E r \in Reqs : BatchEmpty(r)
    \/ \E r \in Reqs : PredictLoad(r)
    \/ \E r \in Reqs : PredictRun(r)
    \/ \E r \in Reqs : Respond(r)
    \/ IdpChange

Spec == Init /\ [][Next]_vars

\* get_jwks and get_current_user alone, with an identity provider that rotates
\* its keys: what the route does with the claim set is not followed
IdpStatesRotating == IdpStates \cup {"rotated"}

\* the identity provider goes down, comes up, or rotates its keys
IdpRotate ==
    /\ \E s \in IdpStatesRotating \ {idp} : idp' = s
    /\ UNCHANGED <<jwks_cache, req, _loaded_models, _model_hashes, decision_memory, disk, worker, engine, logger>>

\* get_current_user has returned the claim set and the request leaves
AuthReturned(r) ==
    /\ req[r].pc = "authed"
    /\ LoopFree(r)
    /\ req' = [req EXCEPT ![r] = Idle]
    /\ UNCHANGED <<jwks_cache, idp, _loaded_models, _model_hashes, decision_memory, disk, worker, engine, logger>>

InitJwks ==
    /\ jwks_cache = None
    /\ idp \in IdpStatesRotating
    /\ req = [r \in Reqs |-> Idle]
    /\ _loaded_models = << >>
    /\ _model_hashes = << >>
    /\ decision_memory = << >>
    /\ disk = InitialDisk
    /\ worker = [w \in Workers |-> IdleWorker]
    /\ engine = "none"
    /\ logger = IdleLogger

NextJwks ==
    \/ \E r \in Reqs : RejectHeader(r)
    \/ \E r \in Reqs : AuthCached(r)
    \/ \E r \in Reqs : StartFetch(r)
    \/ \E r \in Reqs : FetchReturns(r)
    \/ \E r \in Reqs : AuthReturned(r)
    \/ \E r \in Reqs : Respond(r)
    \/ IdpRotate

SpecJwks == InitJwks /\ [][NextJwks]_vars

\* llm_predict alone, for requests its dependency has let through.
\* How the call to the language-model host can end: a success response with a
\* JSON body or with one that is no JSON, a non-success response, or one of
\* the errors httpx raises
Timeouts == {"ConnectTimeout", "ReadTimeout", "WriteTimeout", "PoolTimeout"}
ConnectionFailures == {"ConnectError", "ReadError", "WriteError", "RemoteProtocolError"}
LlmOutcomes == {"json", "not_json", "non_success"} \cup Timeouts \cup ConnectionFailures

\* the classes of the exception the try block of lines 23-48 ends with, as
\* `except` matches them: httpx's errors by their base classes
Classes(outcome) ==
    IF outcome \in Timeouts
    THEN {outcome, "TimeoutException", "TransportError", "RequestError", "Exception"}
    ELSE IF outcome \in ConnectionFailures
    THEN {outcome, "TransportError", "RequestError", "Exception"}
    ELSE IF outcome = "non_success" THEN {"HTTPException", "Exception"}
    ELSE IF outcome = "not_json" THEN {"JSONDecodeError", "ValueError", "Exception"}
    ELSE {}

\* lines 50-58: the except clauses in their order, each with its response
\* (the HTTPException of line 39 is raised again as it is)
Handlers ==
    << [catches |-> "ReadTimeout", status |-> 504, detail |-> <<"Ollama request timeout">>],
       [catches |-> "RequestError", status |-> 502, detail |-> <<"Ollama connection error:">>],
       [catches |-> "HTTPException", status |-> HTTP_500, detail |-> <<"Ollama error:">>],
       [catches |-> "Exception", status |-> HTTP_500, detail |-> <<"Internal server error">>] >>

\* the first except clause, from the i-th on, that matches
RECURSIVE HandledBy(_, _)
HandledBy(classes, i) ==
    IF Handlers[i].catches \in classes THEN Handlers[i] ELSE HandledBy(classes, i + 1)

\* lines 23-58: the response of llm_predict
llm_predict(outcome) ==
    IF Classes(outcome) = {}
    THEN [status |-> 200, detail |-> <<"response">>]
    ELSE [status |-> HandledBy(Classes(outcome), 1).status,
          detail |-> HandledBy(Classes(outcome), 1).detail]

\* llm_predict up to the await of client.post (line 25)
LlmCall(r) ==
    /\ req[r].pc = "idle"
    /\ LoopFree(r)
    /\ req' = [req EXCEPT ![r] = [@ EXCEPT !.pc = "awaiting", !.endpoint = "llm/predict"]]
    /\ UNCHANGED <<jwks_cache, idp, _loaded_models, _model_hashes, decision_memory, disk, worker, engine, logger>>

\* the call to the language-model host ends and llm_predict answers
LlmReturns(r) ==
    /\ req[r].pc = "awaiting"
    /\ LoopFree(r)
    /\ \E outcome \in LlmOutcomes :
         req' = [req EXCEPT ![r] =
                   Done([@ EXCEPT !.upstream = outcome], "llm_predict",
                        llm_predict(outcome).status, llm_predict(outcome).detail)]
    /\ UNCHANGED <<jwks_cache, idp, _loaded_models, _model_hashes, decision_memory, disk, worker, engine, logger>>

NextLlm ==
    \/ \E r \in Reqs : LlmCall(r)
    \/ \E r \in Reqs : LlmReturns(r)
    \/ \E r \in Reqs : Respond(r)

SpecLlm == Init /\ [][NextLlm]_vars

\* RoleChecker alone, on every shape of claim set get_current_user can return
\* (the subject is there), for a request that has just been authenticated
Authenticated(c) ==
    [Idle EXCEPT !.pc = "authed",
                 !.header = Some([wellformed |-> TRUE, alg |-> RequiredAlg, kid |-> "k2"]),
                 !.called = TRUE, !.jwks = Some(JwksDoc), !.decoded = TRUE,
                 !.ver = Some([signedBy |-> "m2", aud |-> Audience, iss |-> Issuer,
                               expired |-> FALSE]),
                 !.payload = Some(c), !.user = Some(c), !.steps = {"authenticate"}]

InitRole ==
    /\ jwks_cache = Some(JwksDoc)
    /\ idp \in IdpStates
    /\ \E c \in {x \in ClaimSets : x.sub} :
         req = [r \in Reqs |-> IF r = "r1" THEN Authenticated(c) ELSE Idle]
    /\ _loaded_models = << >>
    /\ _model_hashes = << >>
    /\ decision_memory = << >>
    /\ disk = InitialDisk
    /\ worker = [w \in Workers |-> IdleWorker]
    /\ engine = "none"
    /\ logger = IdleLogger

NextRole == \E r \in Reqs : RoleCheck(r)

SpecRole == InitRole /\ [][NextRole]_vars

\* ModelService as the worker threads run it.  A call is cut where it reads or
\* writes what the threads share: the two maps and the files under models/.
gateway == <<jwks_cache, idp, req>>

InitModel ==
    /\ jwks_cache = Some(JwksDoc)
    /\ idp = "up"
    /\ req = [r \in Reqs |-> Idle]
    /\ _loaded_models = << >>
    /\ _model_hashes = << >>
    /\ decision_memory = << >>
    /\ disk \in Disks
    /\ worker = [w \in Workers |-> IdleWorker]
    /\ engine = "up"
    /\ logger = IdleLogger

\* a thread is handed predict, get_model_info or preload_models; the call
\* reaches load_model, line 43
Call(w) ==
    /\ worker[w].pc = "idle"
    /\ \E op \in Ops : \E name \in CallNames(op, disk) : \E features \in CallFeatures(op, name) :
         LET c == [IdleWorker EXCEPT !.op = op, !.model_name = name, !.features = features] IN
         worker' = [worker EXCEPT ![w] =
                      IF name = "" THEN [c EXCEPT !.pc = "ret"]
                      ELSE IF CacheHit(name, _loaded_models, disk)
                      THEN Loaded([c EXCEPT !.hit = TRUE, !.model = Some(_loaded_models[name])])
                      ELSE [c EXCEPT !.pc = "L48"]]
    /\ UNCHANGED <<gateway, _loaded_models, _model_hashes, decision_memory, disk, engine, logger>>

\* line 48: local_path.exists()
CheckLocal(w) ==
    /\ worker[w].pc = "L48"
    /\ worker' = [worker EXCEPT ![w] =
                    [@ EXCEPT !.pc = IF IsNone(disk[worker[w].model_name]) THEN "L67"
                                     ELSE "L52",
                              !.io = @ \cup {"exists"}]]
    /\ UNCHANGED <<gateway, _loaded_models, _model_hashes, decision_memory, disk, engine, logger>>

\* lines 52-53: the file is read and hashed
HashFile(w) ==
    /\ worker[w].pc = "L52"
    /\ LET c == [worker[w] EXCEPT !.io = @ \cup {"read"}]
           file == disk[c.model_name]
       IN worker' = [worker EXCEPT ![w] =
                       IF IsNone(file)
                       THEN Failed(c, Raised("FileNotFoundError", <<c.model_name>>))
                       ELSE [c EXCEPT !.pc = "L55", !.model_hash = Some(sha256(file[1]))]]
    /\ UNCHANGED <<gateway, _loaded_models, _model_hashes, decision_memory, disk, engine, logger>>

\* lines 55-56: joblib.load reads the file again; the model is put in the cache
Deserialize(w) ==
    /\ worker[w].pc = "L55"
    /\ LET c == [worker[w] EXCEPT !.io = @ \cup {"load"}]
           file == disk[c.model_name]
       IN /\ worker' = [worker EXCEPT ![w] =
                          IF IsNone(file)
                          THEN Failed(c, Raised("FileNotFoundError", <<c.model_name>>))
                          ELSE IF file = Some("bad")
                          THEN Failed(c, Raised("UnpicklingError", <<c.model_name>>))
                          ELSE [c EXCEPT !.pc = "L57", !.model = Some(LocalModel(file[1])),
                                         !.wrote = @ \cup {"_loaded_models"}]]
          /\ _loaded_models' = StoreModel(_loaded_models, c.model_name, file)
    /\ UNCHANGED <<gateway, _model_hashes, decision_memory, disk, engine, logger>>

\* line 57, and the return of line 62
StoreHash(w) ==
    /\ worker[w].pc = "L57"
    /\ _model_hashes' = Put(_model_hashes, worker[w].model_name, worker[w].model_hash[1])
    /\ worker' = [worker EXCEPT ![w] = Loaded([@ EXCEPT !.wrote = @ \cup {"_model_hashes"}])]
    /\ UNCHANGED <<gateway, _loaded_models, decision_memory, disk, engine, logger>>

\* lines 65-83: the registry
LoadRemote(w) ==
    /\ worker[w].pc = "L67"
    /\ \E registry \in RegistryStates :
         LET c == worker[w] IN
         IF registry = "importerror"
         THEN /\ worker' = [worker EXCEPT ![w] =
                              Failed(c, Raised("ValueError",
                                  <<"Model", c.model_name,
                                    "not found locally. Graceful fallback failed.">>))]
              /\ UNCHANGED _loaded_models
         ELSE IF registry = "ok" /\ c.model_name \in RegistryModels
         THEN /\ worker' = [worker EXCEPT ![w] =
                              Loaded([c EXCEPT !.io = @ \cup {"registry"},
                                               !.model = Some(RegistryModel(c.model_name)),
                                               !.wrote = @ \cup {"_loaded_models"}])]
              /\ _loaded_models' = Put(_loaded_models, c.model_name, RegistryModel(c.model_name))
         ELSE /\ worker' = [worker EXCEPT ![w] =
                              Failed([c EXCEPT !.io = @ \cup {"registry"}],
                                     Raised("ValueError",
                                         <<"Model", c.model_name,
                                           "not found. Graceful fallback failed:">>))]
              /\ UNCHANGED _loaded_models
    /\ UNCHANGED <<gateway, _model_hashes, decision_memory, disk, engine, logger>>

\* predict, lines 92-111: the schema check, and the version read off the digest map
CheckSchema(w) ==
    /\ worker[w].pc = "loaded"
    /\ LET c == worker[w]
           missing_features == MissingFeatures(c.model_name, c.features)
       IN worker' = [worker EXCEPT ![w] =
                       IF missing_features # << >>
                       THEN Failed(c, Raised("ValueError",
                                <<"Schema Validation Failed. Missing required features:">>
                                    \o missing_features))
                       ELSE [c EXCEPT !.pc = "L115",
                                      !.version = Version(c.model_name, _model_hashes)]]
    /\ UNCHANGED <<gateway, _loaded_models, _model_hashes, decision_memory, disk, engine, logger>>

\* predict, lines 115-155: inference, the logger call, the result
Infer(w) ==
    /\ worker[w].pc = "L115"
    /\ \E logcall \in LogCalls :
         LET c == worker[w]
             out == predict_return(Prediction(c.model_name, c.model[1], c.version), logcall)
         IN /\ worker' = [worker EXCEPT ![w] =
                             [c EXCEPT !.pc = "ret", !.inferred = TRUE, !.logcall = logcall,
                                       !.result = out.result, !.error = out.error]]
            /\ decision_memory' =
                   log_decision_call(decision_memory, <<c.model_name, c.version>>)
    /\ UNCHANGED <<gateway, _loaded_models, _model_hashes, disk, engine, logger>>

\* the call is over and the thread is free again
Return(w) ==
    /\ worker[w].pc = "ret"
    /\ worker' = [worker EXCEPT ![w] = IdleWorker]
    /\ UNCHANGED <<gateway, _loaded_models, _model_hashes, decision_memory, disk, engine, logger>>

\* models/churn_model.pkl is written, replaced or removed
ReplaceArtifact ==
    /\ \E d \in Disks \ {disk} : disk' = d
    /\ UNCHANGED <<gateway, _loaded_models, _model_hashes, decision_memory, worker, engine, logger>>

WorkerStep(w) ==
    \/ Call(w)
    \/ CheckLocal(w)
    \/ HashFile(w)
    \/ Deserialize(w)
    \/ StoreHash(w)
    \/ LoadRemote(w)
    \/ CheckSchema(w)
    \/ Infer(w)
    \/ Return(w)

NextModel ==
    \/ \E w \in Workers : Call(w)
    \/ \E w \in Workers : CheckLocal(w)
    \/ \E w \in Workers : HashFile(w)
    \/ \E w \in Workers : Deserialize(w)
    \/ \E w \in Workers : StoreHash(w)
    \/ \E w \in Workers : LoadRemote(w)
    \/ \E w \in Workers : CheckSchema(w)
    \/ \E w \in Workers : Infer(w)
    \/ \E w \in Workers : Return(w)
    \/ ReplaceArtifact

SpecModel == InitModel /\ [][NextModel]_vars

\* one thread, scheduled until its call is over
NextAudit == \E w \in {"w1"} : WorkerStep(w)

SpecAudit == InitModel /\ [][NextAudit]_vars /\ WF_vars(NextAudit)

\* the request awaiting a predict call is cancelled while the call runs on
\* its thread: the thread is not interrupted and runs the call to its end, and
\* what the call returns is given to no one
Cancel(w) ==
    /\ worker[w].op = "predict"
    /\ worker[w].pc \notin {"idle", "ret"}
    /\ ~worker[w].cancelled
    /\ worker' = [worker EXCEPT ![w] = [@ EXCEPT !.cancelled = TRUE]]
    /\ UNCHANGED <<gateway, _loaded_models, _model_hashes, decision_memory, disk, engine, logger>>

\* one thread running calls that may be cancelled at any point
NextCancel ==
    \/ \E w \in {"w1"} : WorkerStep(w)
    \/ \E w \in {"w1"} : Cancel(w)

SpecCancel == InitModel /\ [][NextCancel]_vars

\* predict from its schema check to the frame it gives the model, lines
\* 92-108, with the values of the features.
\* the columns the shipped churn model was fitted on, in their order
ChurnTrained ==
    <<"usage_frequency", "support_tickets", "tenure_months", "monthly_spend",
      "feature_usage_pct">>
Reverse(seq) == [i \in 1 .. Len(seq) |-> seq[Len(seq) + 1 - i]]
\* model.feature_names_in_: None when the estimator has no such attribute
TrainedNames ==
    {None, Some(ChurnTrained), Some(Reverse(_feature_schemas.churn_model))}
\* the names predict is called with here: one with a declared schema and one
\* without
FrameNames == {"churn_model", "segment_model"}
\* the feature dicts of the callers: the keys in insertion order, and the
\* values, none of them 0
ExtraFeatures == <<"tenure_months", "monthly_spend">>
FeatureOrders ==
    {SelectSeq(_feature_schemas.churn_model \o ExtraFeatures,
               LAMBDA f : f \notin dropped /\ (f \in Range(ExtraFeatures) => f \in extra)) :
        dropped \in {{}, {"age"}}, extra \in SUBSET Range(ExtraFeatures)}
FeatureDicts ==
    {[order |-> o, values |-> [f \in Range(o) |-> IF f = "usage_frequency" THEN u
                                                  ELSE IF f = "tenure_months" THEN t
                                                  ELSE 1]] :
        o \in FeatureOrders \cup {Reverse(x) : x \in FeatureOrders}, u \in {3, 4}, t \in {5, 6}}

\* pd.DataFrame([d]) of a dict whose keys are taken in the given order
DataFrame(columns, values) ==
    [columns |-> columns, row |-> [f \in Range(columns) |-> values[f]]]
\* df.reindex(columns=..., fill_value=...)
reindex(df, columns, fill_value) ==
    [columns |-> columns,
     row |-> [f \in Range(columns) |-> IF f \in Range(df.columns) THEN df.row[f]
                                       ELSE fill_value]]
\* lines 99-103: the frame before the reindex
ordered_features(model_name, d) ==
    IF model_name \in DOMAIN _feature_schemas
    THEN DataFrame(_feature_schemas[model_name], d.values)
    ELSE DataFrame(d.order, d.values)
\* lines 106-108
Aligned(df, trained) == IF IsNone(trained) THEN df ELSE reindex(df, trained[1], 0)

InitFeatures ==
    /\ jwks_cache = Some(JwksDoc)
    /\ idp = "up"
    /\ req = [r \in Reqs |-> Idle]
    /\ _loaded_models = << >>
    /\ _model_hashes = << >>
    /\ decision_memory = << >>
    /\ disk = InitialDisk
    /\ \E name \in FrameNames : \E d \in FeatureDicts : \E trained \in TrainedNames :
         worker = [w \in Workers |->
                     IF w = "w1"
                     THEN [IdleWorker EXCEPT !.pc = "loaded", !.op = "predict",
                                             !.model_name = name,
                                             !.features = Range(d.order),
                                             !.values = d.values, !.order = d.order,
                                             !.trained = trained]
                     ELSE IdleWorker]
    /\ engine = "up"
    /\ logger = IdleLogger

\* lines 92-111: the schema check and the frame given to the model
BuildFrame(w) ==
    /\ worker[w].pc = "loaded"
    /\ LET c == worker[w]
           missing_features == MissingFeatures(c.model_name, c.features)
           d == [order |-> c.order, values |-> c.values]
       IN worker' = [worker EXCEPT ![w] =
                       IF missing_features # << >>
                       THEN Failed(c, Raised("ValueError",
                                <<"Schema Validation Failed. Missing required features:">>
                                    \o missing_features))
                       ELSE [c EXCEPT !.pc = "L115",
                                      !.df = Some(Aligned(ordered_features(c.model_name, d),
                                                          c.trained)),
                                      !.version = Version(c.model_name, _model_hashes)]]
    /\ UNCHANGED <<gateway, _loaded_models, _model_hashes, decision_memory, disk, engine, logger>>

NextFeatures == \E w \in {"w1"} : BuildFrame(w)

SpecFeatures == InitFeatures /\ [][NextFeatures]_vars

\* DecisionLogger.log_decision as a caller awaiting it runs it
InitLogger ==
    /\ jwks_cache = Some(JwksDoc)
    /\ idp = "up"
    /\ req = [r \in Reqs |-> Idle]
    /\ _loaded_models = << >>
    /\ _model_hashes = << >>
    /\ decision_memory = << >>
    /\ disk = InitialDisk
    /\ worker = [w \in Workers |-> IdleWorker]
    /\ \E db_url_set \in BOOLEAN, created \in BOOLEAN, reachable \in BOOLEAN :
         engine = IF ~DecisionLogger_init(db_url_set, created) THEN "none"
                  ELSE IF reachable THEN "up" ELSE "down"
    /\ logger = IdleLogger

models == <<_loaded_models, _model_hashes, disk, worker>>

\* lines 35-49: the call, and the return when there is no engine
LogCall ==
    /\ logger.pc = "idle"
    /\ Len(decision_memory) < MaxRows
    /\ \E args \in LogArgs :
         logger' = [IdleLogger EXCEPT !.pc = IF engine = "none" THEN "ret" ELSE "L53",
                                      !.args = Some(args), !.before = decision_memory]
    /\ UNCHANGED <<gateway, models, decision_memory, engine>>

\* lines 53-69: the record, with json.dumps of the features
BuildRecord ==
    /\ logger.pc = "L53"
    /\ logger' = IF IsNone(json_dumps(logger.args[1].features))
                 THEN Caught(logger, "TypeError")
                 ELSE [logger EXCEPT !.pc = "L71",
                                     !.record = Some(decision_record(logger.args[1]))]
    /\ UNCHANGED <<gateway, models, decision_memory, engine>>

\* line 71: engine.begin() takes a connection and opens a transaction
BeginTxn ==
    /\ logger.pc = "L71"
    /\ logger' = IF engine = "down"
                 THEN Caught([logger EXCEPT !.attempted = TRUE], "OperationalError")
                 ELSE [logger EXCEPT !.pc = "L72", !.attempted = TRUE, !.txn = Some(<< >>)]
    /\ UNCHANGED <<gateway, models, decision_memory, engine>>

\* line 72: the INSERT, inside the transaction
Execute ==
    /\ logger.pc = "L72"
    /\ logger' = IF engine = "down"
                 THEN Caught(logger, "DBAPIError")
                 ELSE [logger EXCEPT !.pc = "L73", !.txn = Some(<<logger.record[1]>>)]
    /\ UNCHANGED <<gateway, models, decision_memory, engine>>

\* the end of the async with block: the transaction is committed
Commit ==
    /\ logger.pc = "L73"
    /\ IF engine = "down"
       THEN /\ logger' = Caught(logger, "DBAPIError")
            /\ UNCHANGED decision_memory
       ELSE /\ logger' = [logger EXCEPT !.pc = "ret", !.txn = None]
            /\ decision_memory' = decision_memory \o logger.txn[1]
    /\ UNCHANGED <<gateway, models, engine>>

\* the awaiting caller goes on
LogReturn ==
    /\ logger.pc = "ret"
    /\ logger' = IdleLogger
    /\ UNCHANGED <<gateway, models, decision_memory, engine>>

\* the database goes away or comes back
EngineChange ==
    /\ engine # "none"
    /\ engine' = IF engine = "up" THEN "down" ELSE "up"
    /\ UNCHANGED <<gateway, models, decision_memory, logger>>

NextLogger ==
    \/ LogCall
    \/ BuildRecord
    \/ BeginTxn
    \/ Execute
    \/ Commit
    \/ LogReturn
    \/ EngineChange

SpecLogger == InitLogger /\ [][NextLogger]_vars

\* ------------------------------------------------------------------ claims
\* what the claims read of a request's record
HeaderPassed(q) ==
    ~IsNone(q.header) /\ q.header[1].alg = "RS256" /\ q.header[1].kid # Absent
Refused401(q) ==
    q.pc = "done" /\ q.by = "get_current_user" /\ q.status = 401 /\ IsNone(q.user)
KidsOf(jwks) == IF IsNone(jwks) THEN {} ELSE {jwks[1].keys[i].kid : i \in DOMAIN jwks[1].keys}
\* the signature verifies under the first key of the returned set that has the token's kid
SignatureOK(q) ==
    \E i \in DOMAIN q.jwks[1].keys :
        /\ q.jwks[1].keys[i].kid = q.header[1].kid
        /\ \A j \in 1 .. i - 1 : q.jwks[1].keys[j].kid # q.header[1].kid
        /\ q.ver[1].signedBy = q.jwks[1].keys[i].mat
TokenValid(q) ==
    /\ HeaderPassed(q)
    /\ ~IsNone(q.jwks)
    /\ ~IsNone(q.ver)
    /\ SignatureOK(q)
    /\ q.ver[1].aud = "authenticated"
    /\ q.ver[1].iss = <<SUPABASE_URL, "/auth/v1">>
    /\ ~q.ver[1].expired
    /\ ~IsNone(q.payload)
    /\ q.payload[1].sub
RoleChecked(q) == q.endpoint # ""

\* C1: a token whose unverified header has an alg other than exactly "RS256", or
\* no kid, never yields a claim set: get_current_user has refused it with 401
\* without decoding it, whatever the key-set cache holds.
C1_StrictAlgAndKid ==
    \A r \in Reqs :
        LET q == req[r] IN
        (~IsNone(q.header) /\ (q.header[1].alg # "RS256" \/ q.header[1].kid = Absent))
            => Refused401(q) /\ ~q.decoded /\ "authenticate" \notin q.steps

\* an HS256 token naming a kid of the cached key set has been refused
C1_Witness ==
    \E r \in Reqs :
        /\ ~IsNone(req[r].header)
        /\ req[r].header[1].alg = "HS256"
        /\ req[r].header[1].kid = "k2"
        /\ jwks_cache = Some(JwksDoc)
        /\ Refused401(req[r])

\* C2: an RS256 token whose kid matches no key of the key set get_jwks returned
\* (an empty return included) is refused with 401, and jwt.decode is never
\* attempted for it.
C2_UnknownKidRefused ==
    \A r \in Reqs :
        LET q == req[r] IN
        (HeaderPassed(q) /\ q.called /\ q.pc # "fetching" /\ q.header[1].kid \notin KidsOf(q.jwks))
            => Refused401(q) /\ ~q.decoded /\ IsNone(q.ver)

\* one request met an empty key set, another a key set without its kid
C2_Witness ==
    \E a, b \in Reqs :
        /\ HeaderPassed(req[a]) /\ req[a].pc = "done" /\ IsNone(req[a].jwks)
        /\ HeaderPassed(req[b]) /\ req[b].pc = "done" /\ ~IsNone(req[b].jwks)
        /\ req[b].header[1].kid = "k9"

C4_OneGenericRefusal ==
    \A a, b \in Reqs :
        (/\ Refused401(req[a]) /\ req[a].header[1].wellformed
         /\ Refused401(req[b]) /\ req[b].header[1].wellformed)
            => req[a].status = req[b].status /\ req[a].detail = req[b].detail

\* C5 as stated: while the cache has never been populated no call is
\* authenticated, every call of get_current_user made a fetch attempt of its
\* own, and a call whose fetch succeeds populates the cache and accepts a valid
\* token.
C5_FailClosedEveryCallFetches ==
    \A r \in Reqs :
        LET q == req[r] IN
        /\ (IsNone(jwks_cache) /\ ~IsNone(q.header)) => IsNone(q.user) /\ q.fetch # ""
        /\ q.fetch = "ok" => ~IsNone(jwks_cache) /\ q.jwks = jwks_cache
        /\ (q.fetch = "ok" /\ TokenValid(q)) => ~IsNone(q.user)

\* C5 amended: while the cache has never been populated no call is
\* authenticated, every call whose token passes the alg and kid checks made a
\* fetch attempt of its own, and a call whose fetch succeeds populates the cache
\* and accepts a valid RS256 token with a matching kid.
C5_FailClosedWithRecovery ==
    \A r \in Reqs :
        LET q == req[r] IN
        /\ (IsNone(jwks_cache) /\ ~IsNone(q.header)) => IsNone(q.user)
        /\ (IsNone(jwks_cache) /\ HeaderPassed(q)) => q.fetch # ""
        /\ (IsNone(jwks_cache) /\ q.pc = "done" /\ q.by = "get_current_user") => q.status = 401
        /\ q.fetch = "ok" => ~IsNone(jwks_cache) /\ q.jwks = jwks_cache
        /\ (q.fetch = "ok" /\ TokenValid(q)) => ~IsNone(q.user)

\* one call failed closed on a failed fetch; a later call's fetch succeeded and
\* its token was accepted
C5_Witness ==
    \E a, b \in Reqs :
        /\ req[a].fetch = "failed" /\ IsNone(req[a].jwks) /\ Refused401(req[a])
        /\ req[b].fetch = "ok" /\ ~IsNone(req[b].user)

\* C6 as stated: a call of get_jwks whose fetch failed returns the empty value.
C6_FailedFetchReturnsEmpty ==
    \A r \in Reqs : req[r].fetch = "failed" => IsNone(req[r].jwks) /\ ~req[r].raised

\* C6 amended: a call of get_jwks whose fetch fails raises nothing, does not
\* change jwks_cache, and returns the cache's current value (empty unless a
\* concurrent call populated it meanwhile).
C6_FailedFetchKeepsCache ==
    [][\A r \in Reqs :
          (req[r].pc = "fetching" /\ req'[r].fetch = "failed")
              => /\ jwks_cache' = jwks_cache
                 /\ req'[r].jwks = jwks_cache
                 /\ ~req'[r].raised]_vars

\* a fetch failed with the cache empty and the call returned the empty value
C6_Witness ==
    \E r \in Reqs :
        /\ req[r].fetch = "failed"
        /\ IsNone(req[r].jwks)
        /\ IsNone(jwks_cache)
        /\ req[r].pc = "done"

\* the role of a claim set by the stated order: the first carrier with a role
\* value, else "viewer"
StatedRole(c) ==
    IF Truthy(c.user_role) THEN c.user_role
    ELSE IF Truthy(c.role) THEN c.role
    ELSE IF c.app_metadata.kind = "dict" /\ Truthy(c.app_metadata.role) THEN c.app_metadata.role
    ELSE "viewer"

\* C7: for every claim set RoleChecker resolves the first role present in the
\* order user_role, role, app_metadata.role, else "viewer", and resolution
\* never fails.
C7_RoleResolutionTotal ==
    \A r \in Reqs :
        RoleChecked(req[r]) => req[r].resolved = Some(StatedRole(req[r].user[1]))

\* C8: a claim set whose resolved role is "authenticated" is treated as
\* "viewer": it is allowed exactly when "viewer" is allowed, so it passes
\* allow_all (/predict) and is refused with 403 by allow_analysts (/batch-predict).
C8_AuthenticatedIsViewer ==
    \A r \in Reqs :
        LET q == req[r] IN
        (RoleChecked(q) /\ q.resolved = Some("authenticated"))
            => /\ q.role = Some("viewer")
               /\ ~IsNone(q.granted) <=> "viewer" \in Range(AllowedRoles(q.endpoint))
               /\ q.endpoint = "predict" => q.granted = q.user /\ q.status = 0
               /\ q.endpoint = "batch-predict" => q.status = 403 /\ q.pc = "done"

\* an "authenticated" claim set was refused by allow_analysts
C8_Witness ==
    \E r \in Reqs :
        /\ RoleChecked(req[r])
        /\ req[r].resolved = Some("authenticated")
        /\ req[r].endpoint = "batch-predict"
        /\ req[r].status = 403

\* C9: RoleChecker fails with 403 naming the role and the allowed set exactly
\* when the effective role is not in allowed_roles, and otherwise returns the
\* claim set it was given; it changes no shared state.
C9_ForbiddenOrReturned ==
    /\ \A r \in Reqs :
        LET q == req[r] IN
        RoleChecked(q) =>
            IF ~IsNone(q.role) /\ q.role[1] \in Range(AllowedRoles(q.endpoint))
            THEN q.granted = q.user /\ q.status = 0
            ELSE /\ q.status = 403
                 /\ IsNone(q.granted)
                 /\ ~IsNone(q.role)
                 /\ q.detail = <<"Operation not permitted. Role", q.role[1], "is not in">>
                                   \o AllowedRoles(q.endpoint)
    /\ jwks_cache = Some(JwksDoc)
    /\ _loaded_models = << >>
    /\ _model_hashes = << >>
    /\ decision_memory = << >>

\* C10: a request loads a model, runs inference or issues a decision-log call
\* only after get_current_user returned its claim set and RoleChecker returned
\* it too, and in that order; a request refused by either does none of them.
C10_AuthBeforeModel ==
    \A r \in Reqs :
        LET q == req[r] IN
        /\ (q.steps \cap {"load", "predict", "log"} # {})
              => ~IsNone(q.user) /\ ~IsNone(q.granted) /\ q.granted = q.user
        /\ "log" \in q.steps => "predict" \in q.steps
        /\ "predict" \in q.steps => "load" \in q.steps
        /\ (q.pc = "done" /\ q.by \in {"HTTPBearer", "get_current_user", "RoleChecker"})
              => q.steps \cap {"load", "predict", "log"} = {} /\ q.model_name = ""

\* one request was refused by RoleChecker and touched no model; another was
\* served and logged
C10_Witness ==
    \E a, b \in Reqs :
        /\ req[a].pc = "done" /\ req[a].by = "RoleChecker" /\ req[a].status = 403
        /\ req[b].pc = "done" /\ req[b].status = 200 /\ "log" \in req[b].steps

\* what the claims read of a thread's call
PredictOver(c) == c.pc = "ret" /\ c.op = "predict"
LoadReturned(c) == ~IsNone(c.model)
LoadFailed(c) == c.pc = "ret" /\ c.model_name # "" /\ IsNone(c.model)
Lacking(c) ==
    IF c.model_name \in DOMAIN _feature_schemas
    THEN Range(_feature_schemas[c.model_name]) \ c.features
    ELSE {}
SchemaError(c) ==
    /\ ~IsNone(c.error)
    /\ c.error[1].kind = "ValueError"
    /\ Head(c.error[1].msg) = "Schema Validation Failed. Missing required features:"
    /\ Range(Tail(c.error[1].msg)) = Lacking(c)
    /\ Len(Tail(c.error[1].msg)) = Cardinality(Lacking(c))
NotFoundError(c) ==
    /\ ~IsNone(c.error)
    /\ c.error[1].kind = "ValueError"
    /\ c.error[1].msg[1] = "Model"
    /\ c.error[1].msg[3] \in {"not found locally. Graceful fallback failed.",
                              "not found. Graceful fallback failed:"}

\* C11 as stated: a predict call for a name with a declared schema and a feature
\* map lacking a required feature ends in a schema-validation error listing
\* exactly the missing features, never runs inference and returns no result.
C11_SchemaErrorWhatever ==
    \A w \in Workers :
        LET c == worker[w] IN
        (c.op = "predict" /\ Lacking(c) # {})
            => /\ ~c.inferred
               /\ IsNone(c.result)
               /\ c.pc = "ret" => SchemaError(c)

\* C11 amended: once load_model has returned the model, a predict call for a
\* name with a declared schema and a feature map lacking a required feature
\* ends in a schema-validation error listing exactly the missing features; in
\* every case it runs no inference and returns no result.
C11_SchemaErrorOnceLoaded ==
    \A w \in Workers :
        LET c == worker[w] IN
        (c.op = "predict" /\ Lacking(c) # {})
            => /\ ~c.inferred
               /\ IsNone(c.result)
               /\ (c.pc = "ret" /\ LoadReturned(c)) => SchemaError(c)
               /\ (c.pc = "ret" /\ ~LoadReturned(c)) => ~SchemaError(c)

\* churn_model was loaded and a feature map without tenure and payment_delay
\* was refused
C11_Witness ==
    \E w \in Workers :
        /\ PredictOver(worker[w])
        /\ worker[w].model_name = "churn_model"
        /\ Lacking(worker[w]) = {"tenure", "payment_delay"}
        /\ LoadReturned(worker[w])
        /\ SchemaError(worker[w])

\* C12: a load_model call for a name that is in the cache returns the cached
\* model, makes no storage access (no existence check, no read, no registry
\* call) and leaves the model map and the digest map as they are, whatever
\* models/ holds by then.
C12_CachedLoadTouchesNothing ==
    [][\A w \in Workers :
          /\ (worker[w].pc = "idle" /\ worker'[w].pc # "idle"
                /\ worker'[w].model_name \in DOMAIN _loaded_models)
               => /\ worker'[w].hit
                  /\ worker'[w].model = Some(_loaded_models[worker'[w].model_name])
                  /\ _loaded_models' = _loaded_models
                  /\ _model_hashes' = _model_hashes
          /\ worker'[w].hit => worker'[w].io = {} /\ worker'[w].wrote = {}]_vars

\* churn_model was served from the cache while its file was gone or held
\* other bytes
C12_Witness ==
    \E w \in Workers :
        /\ worker[w].hit
        /\ worker[w].model_name = "churn_model"
        /\ worker[w].model[1].source = "local"
        /\ disk["churn_model"] # Some(worker[w].model[1].content)
        /\ "churn_model" \in DOMAIN _model_hashes

\* C13: load_model reaches the registry only after finding no local file, and
\* every load_model call that does not return a model (the local file absent
\* and the registry failing, or the local file there but unloadable) fails
\* with the model-not-found error (ValueError "Model ... not found ...").
C13_LoadFailsAsNotFound ==
    \A w \in Workers :
        LET c == worker[w] IN
        /\ "registry" \in c.io => c.io = {"exists", "registry"}
        /\ (LoadFailed(c) /\ c.error[1].kind # "FileNotFoundError") => NotFoundError(c)

\* C14: a failing load_model call assigns to neither map, a call for a name
\* that is not cached always starts a fresh load attempt, and a predict call
\* failing schema validation leaves both maps as they are, the model cached.
C14_FailureLeavesCache ==
    [][\A w \in Workers :
          /\ (worker[w].pc # "ret" /\ worker'[w].pc = "ret" /\ ~IsNone(worker'[w].error))
               => /\ _loaded_models' = _loaded_models
                  /\ _model_hashes' = _model_hashes
                  /\ IsNone(worker'[w].model) => worker'[w].wrote = {}
                  /\ SchemaError(worker'[w])
                       => worker'[w].model_name \in DOMAIN _loaded_models'
          /\ (worker[w].pc = "idle" /\ worker'[w].pc # "idle"
                /\ worker'[w].model_name # ""
                /\ worker'[w].model_name \notin DOMAIN _loaded_models)
               => worker'[w].pc = "L48"]_vars

\* one load of churn_model failed on an unloadable file and a later one, once
\* the file was replaced, put the model in the cache
C14_Witness ==
    \E a, b \in Workers :
        /\ LoadFailed(worker[a]) /\ worker[a].model_name = "churn_model"
        /\ worker[a].error[1].kind = "UnpicklingError"
        /\ worker[b].model_name = "churn_model" /\ worker[b].wrote # {}
        /\ PredictOver(worker[b]) /\ ~IsNone(worker[b].result)

\* C15: the model_version of a prediction result is "1.0.0" exactly when the
\* model came from the registry, and the first 8 hex characters of a SHA-256
\* digest of the artifact when the model was loaded from a local file.
C15_VersionIsDigestPrefix ==
    \A w \in Workers :
        LET c == worker[w] IN
        (PredictOver(c) /\ ~IsNone(c.result))
            => /\ c.result[1].model_version = "1.0.0" <=> c.model[1].source = "mlflow"
               /\ c.model[1].source = "local"
                     => c.result[1].model_version \in {sha256(b)[1] : b \in Bytes}

\* C16: the digest stored for a locally loaded model is the hash of the bytes
\* that were deserialized into the cached model.
C16_DigestOfLoadedBytes ==
    \A n \in DOMAIN _model_hashes :
        (n \in DOMAIN _loaded_models /\ _loaded_models[n].source = "local")
            => _model_hashes[n] = sha256(_loaded_models[n].content)

\* C17: a predict call whose inference ran returns the prediction, probability,
\* confidence, name and version inference gave, and no error, whether the
\* logger call gave a coroutine or raised.
C17_LoggerNeverFailsPredict ==
    \A w \in Workers :
        LET c == worker[w] IN
        c.inferred
            => /\ c.logcall \in LogCalls
               /\ IsNone(c.error)
               /\ c.result = Some(Prediction(c.model_name, c.model[1], c.version))

\* the same prediction was returned by a call whose logger call raised and by
\* one whose logger call did not
C17_Witness ==
    \E a, b \in Workers :
        /\ worker[a].inferred /\ worker[a].logcall = "raises"
        /\ worker[b].inferred /\ worker[b].logcall = "coroutine"
        /\ worker[a].result = worker[b].result
        /\ ~IsNone(worker[a].result)

\* C20: two predict calls with the same name and feature map that got the same
\* cached model return the same prediction, probability, confidence and
\* model_version.
C20_SameInputSameResult ==
    \A a, b \in Workers :
        (/\ PredictOver(worker[a]) /\ ~IsNone(worker[a].result)
         /\ PredictOver(worker[b]) /\ ~IsNone(worker[b].result)
         /\ worker[a].model_name = worker[b].model_name
         /\ worker[a].features = worker[b].features
         /\ worker[a].model = worker[b].model)
            => worker[a].result = worker[b].result

\* C18: with the store configured and reachable, every predict call that
\* returned a prediction is followed, sooner or later, by a decision_memory
\* row carrying that call's model name and version.
C18_EveryPredictionRecorded ==
    \A w \in Workers :
        (worker[w].pc = "ret" /\ worker[w].inferred /\ engine = "up")
            ~> (\E i \in DOMAIN decision_memory :
                   decision_memory[i] = <<worker[w].model_name, worker[w].version>>)

\* C19: no error leaves log_decision; without an engine it returns without
\* reaching the database; a call whose serialization, connection, insert or
\* commit failed leaves the table as it found it, with no transaction open; a
\* call that did not fail appended its one record.
C19_LogDecisionSwallows ==
    /\ ~logger.raised
    /\ engine = "none" => ~logger.attempted /\ decision_memory = << >>
                             /\ logger.pc \in {"idle", "ret"}
    /\ (logger.pc = "ret" /\ logger.caught # "")
          => decision_memory = logger.before /\ IsNone(logger.txn)
    /\ (logger.pc = "ret" /\ logger.caught = "" /\ engine # "none")
          => decision_memory = Append(logger.before, logger.record[1])
    /\ logger.pc # "ret" => logger.caught = ""

\* after one record was written, a later call lost its insert to a database
\* failure and the table kept the one row
C19_Witness ==
    /\ logger.pc = "ret"
    /\ logger.caught = "DBAPIError"
    /\ ~IsNone(logger.record)
    /\ Len(decision_memory) = 1
    /\ decision_memory = logger.before

\* C21: once a name is in the model cache it stays there, bound to the
\* predictor first stored, and a digest stored for it stays the one first
\* stored, under every interleaving of the calls of two threads.
C21_CachedHandleNeverReplaced ==
    [][\A n \in DOMAIN _loaded_models :
          /\ n \in DOMAIN _loaded_models'
          /\ _loaded_models'[n] = _loaded_models[n]
          /\ n \in DOMAIN _model_hashes
                => /\ n \in DOMAIN _model_hashes'
                   /\ _model_hashes'[n] = _model_hashes[n]]_vars

\* C29: every name in the cached-model map that was loaded from a local file
\* is also in the digest map, and no prediction made with a locally loaded
\* model carries model_version "1.0.0".
C29_CachedLocalModelHasDigest ==
    /\ \A n \in DOMAIN _loaded_models :
          _loaded_models[n].source = "local" => n \in DOMAIN _model_hashes
    /\ \A w \in Workers :
          (~IsNone(worker[w].result) /\ worker[w].model[1].source = "local")
              => worker[w].result[1].model_version # "1.0.0"

\* C30: the header is parsed, then alg is checked, then kid, and only then is
\* get_jwks called: a request whose token cannot be parsed, names another
\* algorithm or has no kid is refused with 401 for the first check it fails,
\* without a call of get_jwks, without a fetch and with the key-set cache
\* left as it was.
C30_HeaderChecksBeforeKeyLookup ==
    [][\A r \in Reqs :
          (/\ req'[r] # req[r]
           /\ ~IsNone(req'[r].header)
           /\ ~HeaderPassed(req'[r]))
              => LET q == req'[r]
                     h == q.header[1]
                 IN /\ jwks_cache' = jwks_cache
                    /\ ~q.called
                    /\ q.fetch = ""
                    /\ IsNone(q.jwks)
                    /\ Refused401(q)
                    /\ q.detail[2] =
                          IF ~h.wellformed THEN "Error decoding token headers."
                          ELSE IF h.alg # "RS256"
                               THEN "Invalid algorithm. Strict RS256 enforcement applied."
                               ELSE "Missing 'kid' in token header."]_vars

\* with the identity provider reachable and the cache empty, an RS256 token
\* without kid and a token of another algorithm without kid were refused and
\* nothing was fetched
C30_Witness ==
    /\ jwks_cache = None
    /\ idp = "up"
    /\ \E a, b \in Reqs :
          /\ Refused401(req[a]) /\ ~req[a].called
          /\ req[a].header = Some([wellformed |-> TRUE, alg |-> "RS256", kid |-> Absent])
          /\ Refused401(req[b]) /\ ~req[b].called
          /\ req[b].header[1].wellformed
          /\ req[b].header[1].alg # "RS256" /\ req[b].header[1].kid = Absent
          /\ req[b].detail[2] = "Invalid algorithm. Strict RS256 enforcement applied."

\* what failed in a request the predict endpoint answered with an error, as
\* the service raised it
FailedAt(q) ==
    IF q.detail[1] = "Model" THEN "ModelNotFound" ELSE "SchemaValidationFailed"

\* C23: a missing model and a schema-validation failure reach the caller of
\* the predict endpoint with different kinds: two error responses of the
\* endpoint that differ in what failed differ in their status, the one
\* machine-checkable part of the response.
C23_FailureKindsDiffer ==
    \A a, b \in Reqs :
        (/\ req[a].pc = "done" /\ req[a].by = "predict" /\ req[a].status # 200
         /\ req[b].pc = "done" /\ req[b].by = "predict" /\ req[b].status # 200
         /\ FailedAt(req[a]) # FailedAt(req[b]))
            => req[a].status # req[b].status

C28_PopulatedCacheStays ==
    [][/\ ~IsNone(jwks_cache) => ~IsNone(jwks_cache')
       /\ \A r \in Reqs :
             (req[r].pc = "fetching" /\ req'[r].pc # "fetching")
                 => IF req'[r].fetch = "failed"
                    THEN jwks_cache' = jwks_cache /\ req'[r].jwks = jwks_cache
                    ELSE /\ req'[r].fetch = "ok"
                         /\ jwks_cache' \in {Some(Fetched(x)) : x \in FetchResults(idp)}
                         /\ req'[r].jwks = jwks_cache'
       /\ jwks_cache' # jwks_cache
             => \E r \in Reqs : req[r].pc = "fetching" /\ req'[r].fetch = "ok"]_vars

\* two calls started with the cache empty: one fetched the rotated key set
\* and stored it, the other's fetch failed afterwards and it was given the
\* stored set
C28_Witness ==
    \E a, b \in Reqs :
        /\ req[a].fetch = "failed" /\ req[a].pc # "fetching"
        /\ req[a].jwks = Some(RotatedDoc)
        /\ req[b].fetch = "ok" /\ req[b].jwks = Some(RotatedDoc)
        /\ jwks_cache = Some(RotatedDoc)

\* C24: llm_predict answers 504 when the call to the language-model host
\* ended in a connect, read, write or pool timeout, 502 when it ended in a
\* connection failure, and 500 for anything else that went wrong.
C24_TimeoutsAre504 ==
    \A r \in Reqs :
        (req[r].pc = "done" /\ req[r].by = "llm_predict")
            => /\ req[r].upstream \in Timeouts => req[r].status = 504
               /\ req[r].upstream \in ConnectionFailures => req[r].status = 502
               /\ req[r].upstream \in {"not_json", "non_success"} => req[r].status = 500

C26_FrameHoldsCallerValues ==
    \A w \in Workers :
        LET c == worker[w] IN
        ~IsNone(c.df)
            => IF ~IsNone(c.trained)
               THEN /\ c.df[1].columns = c.trained[1]
                    /\ \A f \in Range(c.trained[1]) :
                          c.df[1].row[f] = IF f \in DOMAIN c.values THEN c.values[f] ELSE 0
               ELSE c.model_name \in DOMAIN _feature_schemas
                       => /\ c.df[1].columns = _feature_schemas[c.model_name]
                          /\ \A f \in Range(c.df[1].columns) : c.df[1].row[f] = c.values[f]

====
